---- MODULE Spec2Model ----
(***************************************************************************)
(* Model of SportsAPIClient (src/api_client.py): the cache, the request    *)
(* pacing state and the three fetch operations get_matches,                *)
(* get_event_details and get_event_statistics, with the normalizers they   *)
(* call.                                                                   *)
(*                                                                         *)
(* Time is counted in ticks of half a second, so that the delays drawn by  *)
(* random.uniform(1.5, 3.0) and random.uniform(2.0, 4.0) have integer      *)
(* end points.  time.time() is the variable now.                           *)
(***************************************************************************)
EXTENDS Integers, Sequences, FiniteSets, TLC

\* the keys of the records of the model and what each belongs to: a result
\* dictionary of the client, a response of the API, the arguments of a call,
\* or the control flow of a method; records list their fields in this order
Keys ==
    [api_data |-> "arguments",
     api_response |-> "result",
     attackStrength |-> "response",
     attack_strength |-> "result",
     awayScore |-> "response",
     awayTeamScore |-> "response",
     away_team_form |-> "result",
     away_win |-> "result",
     betting_analysis |-> "result",
     betting_markets |-> "result",
     body |-> "response",
     cache |-> "control",
     cached |-> "result",
     cls |-> "control",
     data |-> "response",
     decodable |-> "response",
     draw |-> "result",
     error |-> "result",
     eventId |-> "response",
     event_data |-> "arguments",
     event_id |-> "result",
     event_info |-> "result",
     events |-> "response",
     exc |-> "control",
     generalInformations |-> "response",
     general_info |-> "result",
     has_data |-> "response",
     has_events |-> "response",
     headToHeadMatches |-> "response",
     headToHeadModel |-> "response",
     head_to_head |-> "result",
     home |-> "response",
     homeOverAll |-> "response",
     homeScore |-> "response",
     homeTeam |-> "response",
     homeTeamForm |-> "response",
     homeTeamPosition |-> "response",
     homeTeamScore |-> "response",
     home_team |-> "result",
     home_team_form |-> "result",
     home_team_position |-> "result",
     home_win |-> "result",
     i |-> "response",
     id |-> "response",
     il |-> "response",
     isSuccess |-> "response",
     is_dict |-> "response",
     is_live |-> "result",
     is_str |-> "response",
     kind |-> "response",
     leagueTable |-> "response",
     league_table |-> "result",
     limit |-> "arguments",
     live_only |-> "arguments",
     lrt |-> "control",
     m |-> "response",
     main_odds |-> "result",
     market_category |-> "result",
     market_description |-> "result",
     market_sub_type |-> "result",
     market_type |-> "result",
     markets |-> "arguments",
     markets_count |-> "result",
     matches |-> "result",
     msg |-> "control",
     name |-> "result",
     nationality |-> "result",
     no |-> "response",
     o |-> "response",
     odd |-> "result",
     oddsMovement |-> "response",
     odds_movement |-> "result",
     openingOdds |-> "response",
     opening_odds |-> "result",
     overAll |-> "response",
     overall |-> "response",
     overall_matches |-> "result",
     overall_table |-> "result",
     pending |-> "control",
     position |-> "response",
     raises |-> "response",
     raw_data |-> "result",
     recent_form |-> "result",
     recent_matches |-> "result",
     referee |-> "response",
     refereeMatches |-> "response",
     refereeName |-> "response",
     referee_info |-> "result",
     result |-> "response",
     ret |-> "control",
     score |-> "result",
     selection_no |-> "result",
     selections |-> "result",
     sov |-> "response",
     special_odd_value |-> "result",
     st |-> "response",
     stats_data |-> "arguments",
     status |-> "response",
     success |-> "result",
     t |-> "response",
     teamName |-> "response",
     team_name |-> "result", team_stats |-> "result", timestamp |-> "result",
     totalMatches |-> "response", total_matches |-> "result", tournamentName |-> "response",
     tournament_name |-> "result", tournament_standings |-> "result",
     use_cache |-> "arguments", v |-> "response"]

VARIABLES
    now,                \* time.time(), in ticks
    callers,            \* the threads that call the client
    cache,              \* self.cache: cache key -> [data, timestamp]
    last_request_time,  \* self.last_request_time
    cache_duration,     \* self.cache_duration
    detail_cache_duration, \* self.detail_cache_duration
    pc,                 \* per caller: position in the fetch it runs
    op,                 \* per caller: the fetch operation it runs
    args,               \* per caller: the arguments of the call
    wake_at,            \* per caller: when its time.sleep() ends
    call_start,         \* per caller: time at which the call started
    lrt_seen,           \* per caller: last_request_time read by the rate-limit check
    rate_waited,        \* per caller: the rate-limit check had to sleep
    delay,              \* per caller: the randomized delay drawn
    dispatch_at,        \* per caller: time at which requests.get was called
    outcome,            \* per caller: what the transport answered
    served,             \* per caller: "cache" or "network"
    result,             \* per caller: the value the call returned
    dispatch_times      \* <<time of the last outbound request>>, <<>> before the first

vars == <<now, callers, cache, last_request_time, cache_duration,
          detail_cache_duration, pc, op, args, wake_at, call_start, lrt_seen,
          rate_waited, delay, dispatch_at, outcome, served, result,
          dispatch_times>>

-----------------------------------------------------------------------------
(* Bounds of the model *)

\* the clock reads StartTime when the client is constructed
StartTime == 8
\* calls start during the first Horizon ticks
Horizon == 5
\* cache TTLs are drawn from 1..MaxTTL ticks
MaxTTL == 1
\* a response arrives at most MaxLatency ticks after its request
MaxLatency == 0

\* an event list has at most MaxEvents events
MaxEvents == 3
\* the limits tried are None and 0..MaxLimit
MaxLimit == 3
\* a market list has at most MaxMarkets markets
MaxMarkets == 2
\* the type codes tried are 0..MaxType, as integers and as strings
MaxType == 16
\* a statistics payload has at most MaxModels raw keys
MaxModels == 2
\* a normalizer called on its own is called at one of the first Readings
\* readings of the clock
Readings == 2

MaxTime == StartTime + Horizon

-----------------------------------------------------------------------------
(* Program constants, in ticks of half a second *)

\* float(os.getenv('MIN_REQUEST_INTERVAL', 2)): 2 s
min_request_interval == 4
\* random.uniform(1.5, 3.0)
HumanDelayMin == 3
HumanDelayMax == 6
\* random.uniform(2.0, 4.0)
ExtraDelayMin == 4
ExtraDelayMax == 8

AllCallers == {"t1", "t2"}
EventIds == {"101", "102"}
None == <<>>

\* a JSON scalar that is an integer or a string: is_str tells which, and v is
\* what str() and an f-string make of it
PyInt(n) == [is_str |-> FALSE, v |-> ToString(n)]
PyStr(text) == [is_str |-> TRUE, v |-> text]
\* x == n for an integer literal n, x == text for a string literal
EqInt(x, n) == ~x.is_str /\ x.v = ToString(n)
EqStr(x, text) == x.is_str /\ x.v = text
\* d[k] = v on a dictionary
Put(d, k, v) == [j \in DOMAIN d \cup {k} |-> IF j = k THEN v ELSE d[j]]
\* the (limit, live_only) pairs get_matches is called with
MatchesArgs == {<<None, FALSE>>, <<<<1>>, TRUE>>}

-----------------------------------------------------------------------------
(* Responses of the transport *)

Market(t, st, sov, o) == [o |-> o, sov |-> sov, st |-> st, t |-> t]
Odd(no, odd) == [no |-> no, odd |-> odd]

\* the 1X2 market of an event
MainMarket == Market(PyInt(1), PyInt(1), "", <<Odd(1, "1.80"), Odd(0, "3.20")>>)

Event(i, il, m) == [i |-> i, il |-> il, is_dict |-> TRUE, m |-> m]
\* an element of the event list that is not a JSON object
BadEvent == [i |-> "", il |-> FALSE, is_dict |-> FALSE, m |-> <<>>]

EventsData(evs) == [events |-> evs, has_events |-> TRUE, is_dict |-> TRUE]
NullData == [events |-> <<>>, has_events |-> FALSE, is_dict |-> FALSE]

\* the decoded JSON body of a response
Body(decodable, is_dict, isSuccess, has_data, data) ==
    [data |-> data, decodable |-> decodable, has_data |-> has_data,
     isSuccess |-> isSuccess, is_dict |-> is_dict]

\* what requests.get() does: raise, or return a response
Response(kind, raises, status, body) ==
    [body |-> body, kind |-> kind, raises |-> raises, status |-> status]

FaultKinds == {"exception", "http_error", "undecodable", "not_dict",
               "flag_false", "no_data", "bad_shape"}

FaultResponses(d) ==
    { Response("exception", TRUE, 0, Body(FALSE, FALSE, FALSE, FALSE, d)),
      Response("http_error", FALSE, 500, Body(FALSE, FALSE, FALSE, FALSE, d)),
      Response("undecodable", FALSE, 200, Body(FALSE, FALSE, FALSE, FALSE, d)),
      Response("not_dict", FALSE, 200, Body(TRUE, FALSE, FALSE, FALSE, d)),
      Response("flag_false", FALSE, 200, Body(TRUE, TRUE, FALSE, TRUE, d)),
      Response("no_data", FALSE, 200, Body(TRUE, TRUE, TRUE, FALSE, d)),
      Response("bad_shape", FALSE, 200, Body(TRUE, TRUE, TRUE, TRUE, d)) }

OkResponse(d) == Response("ok", FALSE, 200, Body(TRUE, TRUE, TRUE, TRUE, d))

MatchesPayloads ==
    { EventsData(<<Event("101", TRUE, <<MainMarket>>), Event("102", FALSE, <<>>)>>),
      EventsData(<<Event("102", FALSE, <<>>), Event("101", TRUE, <<MainMarket>>)>>) }

MatchesResponses ==
    FaultResponses(NullData) \cup { OkResponse(d) : d \in MatchesPayloads }

DetailData(i, m) == [i |-> i, is_dict |-> TRUE, m |-> m]
NullDetail == [i |-> "", is_dict |-> FALSE, m |-> <<>>]

DetailPayloads(e) ==
    { DetailData(e, <<>>),
      DetailData(e, <<MainMarket>>) }

DetailResponses(e) ==
    FaultResponses(NullDetail) \cup { OkResponse(d) : d \in DetailPayloads(e) }

\* the statistics payload with the raw keys of models, a dictionary
StatsData(models) == Put(models, "is_dict", TRUE)
\* a statistics payload that is not a JSON object
NullStats == [is_dict |-> FALSE]

\* the raw keys _process_event_statistics reads
RawKeys ==
    {"eventInformationModel", "tournamentStandingsModel", "recentEventModel",
     "lastEventModel", "soccerIddaaAnalysModel", "soccerRefereePageModel",
     "leagueTableModel", "headToHeadModel", "recentFormModel",
     "bettingAnalysisModel", "refereeInformation", "teamStatisticsModel"}

\* the values a raw key has when it is present: empty ({}, [] or null), or
\* populated; of a populated model the fields below are followed
RawValues(key) ==
    {<<>>} \cup
    CASE key = "eventInformationModel" ->
           {[eventId |-> "101", homeTeam |-> [id |-> 11]]}
      [] key = "tournamentStandingsModel" ->
           {<<[overAll |-> <<1>>, tournamentName |-> "League"]>>}
      [] key = "recentEventModel" -> {[overall |-> <<1>>]}
      [] key = "lastEventModel" ->
           {[homeOverAll |-> <<1>>, homeTeam |-> [id |-> 11]]}
      [] key = "soccerIddaaAnalysModel" -> {[generalInformations |-> <<1>>]}
      [] key = "soccerRefereePageModel" ->
           {[referee |-> [id |-> 7], refereeMatches |-> <<1>>],
            [referee |-> [id |-> 0], refereeMatches |-> <<1>>],
            [refereeMatches |-> <<1>>]}
      [] key = "leagueTableModel" ->
           {[homeTeamPosition |-> 1,
             leagueTable |-> <<[position |-> 1, teamName |-> "Home"]>>]}
      [] key = "headToHeadModel" ->
           {[headToHeadMatches |-> <<[awayTeamScore |-> "0", homeTeamScore |-> "1"]>>,
             totalMatches |-> 3]}
      [] key = "recentFormModel" ->
           {[homeTeamForm |-> <<[awayScore |-> "2", homeScore |-> "1",
                                 result |-> "L"]>>]}
      [] key = "bettingAnalysisModel" ->
           {[oddsMovement |-> <<1>>, openingOdds |-> [home |-> "1.80"]]}
      [] key = "refereeInformation" -> {[refereeName |-> "Referee"]}
      [] key = "teamStatisticsModel" ->
           {[homeTeam |-> [attackStrength |-> 5]]}

\* the payloads in which the raw keys K are present
RECURSIVE ModelsOver(_)
ModelsOver(K) ==
    IF K = {} THEN {<<>>}
    ELSE LET key == CHOOSE k \in K : TRUE IN
         { Put(models, key, value) :
             models \in ModelsOver(K \ {key}), value \in RawValues(key) }

StatsDataOver(K) == { StatsData(models) : models \in ModelsOver(K) }

StatsPayloads ==
    StatsDataOver({}) \cup
    { d \in StatsDataOver({"headToHeadModel"}) : d.headToHeadModel # <<>> }

StatsResponses ==
    FaultResponses(NullStats) \cup { OkResponse(d) : d \in StatsPayloads }

-----------------------------------------------------------------------------
(* Exceptions *)

Exc(cls, msg) == [cls |-> cls, msg |-> msg]
NoExc == Exc("", "")

TransportError == Exc("ConnectionError", "connection failed")
JSONDecodeError == Exc("JSONDecodeError", "Expecting value")
AttributeError == Exc("AttributeError", "object has no attribute 'get'")

ExceptionMutant(e) == e.cls \in {"ConnectionError"}
\* `except Exception as e`
Exception(e) == e.cls \in {"ConnectionError", "JSONDecodeError", "AttributeError"}

\* `except json.JSONDecodeError as e`
JsonDecodeErrorClause(e) == e.cls = "JSONDecodeError"

-----------------------------------------------------------------------------
(* Results *)

NoResult == [pending |-> TRUE]

\* a normalizer's outcome: the exception that left it (NoExc: none) or its value
Raise(e) == [exc |-> e, ret |-> NoResult]
Value(r) == [exc |-> NoExc, ret |-> r]

\* f"{label}: {message}"
ErrorText(label, message) == <<label, message>>

\* f"HTTP {response.status_code}: {response.reason}"
HttpErrorText(resp) == ErrorText("HTTP " \o ToString(resp.status), "reason")

MatchesFailure(label, message, t) ==
    [error |-> ErrorText(label, message), success |-> FALSE, timestamp |-> t]

EventFailureMutant(error, event_id) == [error |-> error, success |-> FALSE]
\* {"success": False, "error": ..., "event_id": event_id}
EventFailure(error, event_id) ==
    [error |-> error, event_id |-> event_id, success |-> FALSE]

\* ... plus "api_response": data.get('message', 'Unknown error')
UnsuccessfulResponse(event_id) ==
    [api_response |-> "Unknown error",
     error |-> ErrorText("API returned unsuccessful response", ""),
     event_id |-> event_id, success |-> FALSE]

\* ... plus "raw_data": the payload that could not be processed
ProcessingFailure(label, message, event_id, raw) ==
    [error |-> ErrorText(label, message), event_id |-> event_id,
     raw_data |-> raw, success |-> FALSE]

-----------------------------------------------------------------------------
(* Normalizers *)

\* Python truth value of the limit argument
LimitSet(limit) == limit # None /\ limit[1] # 0

\* the loop over the selections of the 1X2 market, from selection k on
RECURSIVE OddsLoop(_, _, _)
OddsLoop(odds, k, main_odds) ==
    IF k > Len(odds) THEN main_odds
    ELSE LET selection_no == odds[k].no
             odd_value == odds[k].odd
         IN  OddsLoop(odds, k + 1,
                 IF selection_no = 1 THEN Put(main_odds, "home_win", odd_value)
                 ELSE IF selection_no = 0 THEN Put(main_odds, "draw", odd_value)
                 ELSE IF selection_no = 2 THEN Put(main_odds, "away_win", odd_value)
                 ELSE main_odds)

\* market.get('t') == 1
IsMainMarket(market) == EqInt(market.t, 1)

\* the loop without its break: every market of type 1 is read
RECURSIVE ExtractLoopMutant(_, _)
ExtractLoopMutant(markets, k) ==
    IF k > Len(markets) THEN <<>>
    ELSE IF IsMainMarket(markets[k])
    THEN OddsLoop(markets[k].o, 1, ExtractLoopMutant(markets, k + 1))
    ELSE ExtractLoopMutant(markets, k + 1)

\* the loop over markets of _extract_main_odds, from market k on
RECURSIVE ExtractLoop(_, _)
ExtractLoop(markets, k) ==
    IF k > Len(markets) THEN <<>>
    ELSE IF IsMainMarket(markets[k]) THEN OddsLoop(markets[k].o, 1, <<>>)
    ELSE ExtractLoop(markets, k + 1)

ExtractMainOdds(markets) == ExtractLoop(markets, 1)

MatchData(event) ==
    [event_id |-> event.i, is_live |-> event.il,
     main_odds |-> ExtractMainOdds(event.m)]

\* live_only and not event.get('il', False)
FilteredOutMutant(event, live_only) == ~event.il
FilteredOut(event, live_only) == live_only /\ ~event.il

\* the loop over events of _process_matches_data, from event k on
RECURSIVE MatchesLoop(_, _, _, _, _)
MatchesLoop(events, k, matches, limit, live_only) ==
    IF k > Len(events) THEN Value(matches)
    ELSE LET event == events[k] IN
         IF ~event.is_dict THEN Raise(AttributeError)
         ELSE IF FilteredOut(event, live_only)
              THEN MatchesLoop(events, k + 1, matches, limit, live_only)
              ELSE LET more == Append(matches, MatchData(event)) IN
                   IF LimitSet(limit) /\ Len(more) >= limit[1]
                   THEN Value(more)
                   ELSE MatchesLoop(events, k + 1, more, limit, live_only)

\* the try block of _process_matches_data
ProcessMatchesTry(api_data, limit, live_only, t) ==
    IF ~api_data.is_dict THEN Raise(AttributeError)
    ELSE IF ~api_data.isSuccess \/ ~api_data.has_data
    THEN Value(MatchesFailure("Invalid API response format", "", t))
    ELSE IF ~api_data.data.is_dict THEN Raise(AttributeError)
    ELSE LET events == IF api_data.data.has_events
                       THEN api_data.data.events ELSE <<>>
             loop == MatchesLoop(events, 1, <<>>, limit, live_only)
         IN  IF loop.exc # NoExc THEN loop
             ELSE Value([cached |-> FALSE,
                         matches |-> loop.ret,
                         success |-> TRUE,
                         timestamp |-> t,
                         total_matches |-> Len(loop.ret)])

\* `except Exception as e` of _process_matches_data, around the try block
MatchesExcept(try, t) ==
    IF try.exc = NoExc THEN try
    ELSE IF Exception(try.exc)
    THEN Value(MatchesFailure("Error processing matches data", try.exc.msg, t))
    ELSE try

ProcessMatchesData(api_data, limit, live_only, t) ==
    MatchesExcept(ProcessMatchesTry(api_data, limit, live_only, t), t)

-----------------------------------------------------------------------------
(* Market descriptions and categories *)

\* special_odd_value or '<numeral>'
TemplateMutant(special_odd_value, numeral) == numeral
Template(special_odd_value, numeral) ==
    IF special_odd_value # "" THEN special_odd_value ELSE numeral

\* the table keyed by "<type>.<sub-type>"
market_descriptions(special_odd_value) ==
    ("1.1" :> "1X2 - Match Result") @@
    ("1.2" :> "1X2 - First Half") @@
    ("1.3" :> "1X2 - Second Half") @@
    ("2.92" :> "Double Chance") @@
    ("2.719" :> "Odd/Even Total Goals") @@
    ("2.720" :> "Both Teams to Score") @@
    ("2.604" :> "Total Goals Over/Under " \o Template(special_odd_value, "2.5")) @@
    ("2.605" :> "Total Goals Over/Under 1.5") @@
    ("2.606" :> "Total Goals Over/Under 3.5") @@
    ("2.607" :> "Total Goals Over/Under 0.5") @@
    ("2.608" :> "Total Goals Over/Under 4.5") @@
    ("2.85" :> "First Half 1X2") @@
    ("2.88" :> "1X2 - Match Result (Alternative)") @@
    ("2.36" :> "1X2 - Second Half") @@
    ("2.77" :> "Double Chance (Alternative)") @@
    ("2.91" :> "Odd/Even (Alternative)") @@
    ("2.89" :> "Both Teams to Score (Alternative)") @@
    ("2.84" :> "First Half - 1X2") @@
    ("2.4" :> "Goal Intervals (0-1/2-3/4-5/6+)") @@
    ("2.821" :> "Both Teams to Score (Extended)") @@
    ("2.730" :> "Team Clean Sheet") @@
    ("2.729" :> "Win Either Half") @@
    ("2.698" :> "1X2 & Both Teams Score") @@
    ("2.699" :> "1X2 & Total Goals") @@
    ("2.6" :> "First Half 1X2") @@
    ("2.1" :> "Match Result & Total Over/Under " \o Template(special_odd_value, "2.5")) @@
    ("3.1" :> "Correct Score") @@
    ("3.2" :> "Correct Score - First Half") @@
    ("4.1" :> "Asian Handicap " \o Template(special_odd_value, "0")) @@
    ("4.2" :> "Asian Handicap - First Half " \o Template(special_odd_value, "0")) @@
    ("5.1" :> "Draw No Bet") @@
    ("5.2" :> "Draw No Bet - First Half") @@
    ("6.1" :> "European Handicap " \o Template(special_odd_value, "0")) @@
    ("6.2" :> "European Handicap - First Half " \o Template(special_odd_value, "0")) @@
    ("7.1" :> "Win to Nil") @@
    ("8.1" :> "Home Team Total Goals Over/Under " \o Template(special_odd_value, "1.5")) @@
    ("8.2" :> "Away Team Total Goals Over/Under " \o Template(special_odd_value, "1.5")) @@
    ("9.1" :> "First Goal Scorer") @@
    ("9.2" :> "Last Goal Scorer") @@
    ("9.3" :> "Anytime Goal Scorer") @@
    ("10.1" :> "Half Time / Full Time") @@
    ("11.1" :> "Corners Over/Under " \o Template(special_odd_value, "9.5")) @@
    ("11.2" :> "Corners Handicap " \o Template(special_odd_value, "0")) @@
    ("12.1" :> "Cards Over/Under " \o Template(special_odd_value, "3.5")) @@
    ("12.2" :> "Cards Handicap " \o Template(special_odd_value, "0"))

\* the table with a sub-type that the exact table does not have
subtype_patternsMutant ==
    ("85" :> "First Half 1X2") @@
    ("4" :> "Goal Intervals") @@
    ("999" :> "Other Goals Market")
\* the table of type 2 keyed by sub-type
subtype_patterns ==
    ("85" :> "First Half 1X2") @@
    ("88" :> "1X2 Alternative") @@
    ("36" :> "Second Half 1X2") @@
    ("77" :> "Double Chance") @@
    ("91" :> "Odd/Even") @@
    ("89" :> "Both Teams to Score") @@
    ("84" :> "First Half Result") @@
    ("4" :> "Goal Intervals") @@
    ("821" :> "Both Teams to Score Extended") @@
    ("730" :> "Team Clean Sheet") @@
    ("729" :> "Win Either Half") @@
    ("698" :> "1X2 & Both Teams Score Combo") @@
    ("699" :> "1X2 & Total Goals Combo") @@
    ("6" :> "First Half 1X2")

\* the table keyed by type
main_type_descriptions ==
    ("1" :> "Match Result Markets") @@
    ("2" :> "Goals and Statistics") @@
    ("3" :> "Correct Score") @@
    ("4" :> "Asian Handicap") @@
    ("5" :> "Draw No Bet") @@
    ("6" :> "European Handicap") @@
    ("7" :> "Win to Nil") @@
    ("8" :> "Team Total Goals") @@
    ("9" :> "Goal Scorers") @@
    ("10" :> "Half Time / Full Time") @@
    ("11" :> "Corners") @@
    ("12" :> "Cards") @@
    ("13" :> "Specials") @@
    ("14" :> "Player Props") @@
    ("15" :> "Team Props")

\* any(sel in names for sel in [''])
AnyIn(names, of) == \E sel \in of : sel \in names

\* market_type == "2"
IsTypeTwo(market_type) == EqStr(market_type, "2")

\* main_type_descriptions.get(str(market_type), f"Market Type {market_type}")
MainDescMutant(market_type) ==
    IF market_type.v \in DOMAIN main_type_descriptions
    THEN main_type_descriptions[market_type.v]
    ELSE ""
MainDesc(market_type) ==
    IF market_type.v \in DOMAIN main_type_descriptions
    THEN main_type_descriptions[market_type.v]
    ELSE "Market Type " \o market_type.v

GetMarketDescription(market_type, market_sub_type, special_odd_value) ==
    LET market_key == market_type.v \o "." \o market_sub_type.v
        table == market_descriptions(special_odd_value)
    IN  IF market_key \in DOMAIN table THEN table[market_key]
        ELSE IF IsTypeTwo(market_type) /\ special_odd_value # ""
        THEN IF AnyIn({"Alt", "Ust", "Over", "Under"}, {""})
             THEN "Over/Under " \o special_odd_value
             ELSE IF AnyIn({"1", "0", "2"}, {""})
             THEN "1X2 with Special Value (" \o special_odd_value \o ")"
             ELSE "Goals & Statistics (" \o special_odd_value \o ")"
        ELSE IF /\ IsTypeTwo(market_type)
                /\ market_sub_type.is_str
                /\ market_sub_type.v \in DOMAIN subtype_patterns
        THEN subtype_patterns[market_sub_type.v]
        ELSE IF special_odd_value # ""
        THEN MainDesc(market_type) \o " (" \o special_odd_value \o ")"
        ELSE MainDesc(market_type) \o "." \o market_sub_type.v

\* market_type = str(market_type)
TypeTextMutant(market_type) == IF market_type.is_str THEN market_type.v ELSE ""
TypeText(market_type) == market_type.v

CategorizeMarket(market_type, market_sub_type) ==
    LET text == TypeText(market_type) IN
    IF text \in {"1", "5", "10"} THEN "main_markets"
    ELSE IF text \in {"2", "3", "8"} THEN "goals_markets"
    ELSE IF text \in {"4", "6"} THEN "handicap_markets"
    ELSE IF text \in {"7", "9", "14", "15"} THEN "player_markets"
    ELSE IF text \in {"11", "12", "13"} THEN "events_markets"
    ELSE "other_markets"

-----------------------------------------------------------------------------
(* The details and statistics normalizers *)

SelectionInfo(odd) == [odd |-> odd.odd, selection_no |-> odd.no]

MarketInfo(market) ==
    [market_category |-> CategorizeMarket(market.t, market.st),
     market_description |-> GetMarketDescription(market.t, market.st, market.sov),
     market_sub_type |-> market.st, market_type |-> market.t,
     selections |-> [j \in 1..Len(market.o) |-> SelectionInfo(market.o[j])],
     special_odd_value |-> market.sov]

\* the markets are appended last first
BettingMarketsMutant(markets) ==
    [j \in 1..Len(markets) |-> MarketInfo(markets[Len(markets) + 1 - j])]
\* the loop over the markets: result["betting_markets"].append(market_info)
BettingMarkets(markets) == [j \in 1..Len(markets) |-> MarketInfo(markets[j])]

ProcessDetailedTry(event_data, event_id, t) ==
    IF ~event_data.is_dict THEN Raise(AttributeError)
    ELSE Value([betting_markets |-> BettingMarkets(event_data.m),
                event_id |-> event_id,
                event_info |-> [event_id |-> event_data.i],
                markets_count |-> Len(event_data.m),
                success |-> TRUE,
                timestamp |-> t])

\* `except Exception as e` of _process_detailed_event and of
\* _process_event_statistics, around the try block
ProcessingExcept(try, text, event_id, raw) ==
    IF try.exc = NoExc THEN try
    ELSE IF Exception(try.exc)
    THEN Value(ProcessingFailure(text, try.exc.msg, event_id, raw))
    ELSE try

ProcessDetailedEvent(event_data, event_id, t) ==
    ProcessingExcept(ProcessDetailedTry(event_data, event_id, t),
                     "Error processing detailed event", event_id, event_data)

\* d.get(k, default) and d.get(k)
GetOrMutant(d, k, default) == default
GetOr(d, k, default) == IF k \in DOMAIN d THEN d[k] ELSE default
Get(d, k) == GetOr(d, k, None)
LeagueRow(team) ==
    [position |-> Get(team, "position"), team_name |-> Get(team, "teamName")]
H2HRow(match) ==
    [score |-> Get(match, "homeTeamScore") \o "-" \o Get(match, "awayTeamScore")]
FormRow(match) ==
    [result |-> Get(match, "result"),
     score |-> Get(match, "homeScore") \o "-" \o Get(match, "awayScore")]

\* the rows appended in the loop over a list, by the operators above
LeagueRows(list) == [j \in 1..Len(list) |-> LeagueRow(list[j])]
H2HRows(list) == [j \in 1..Len(list) |-> H2HRow(list[j])]
FormRows(list) == [j \in 1..Len(list) |-> FormRow(list[j])]

\* ref_data and ref_data.get('referee', {}).get('id', 0) > 0
ValidReferee(ref_data) ==
    ref_data # <<>> /\ GetOr(GetOr(ref_data, "referee", <<>>), "id", 0) > 0

\* the fields of value are merged into what d[key] already holds
SetIfMutant(cond, d, key, value) ==
    IF cond
    THEN Put(d, key, IF key \in DOMAIN d THEN value @@ d[key] ELSE value)
    ELSE d
\* `if cond: d[key] = value`, the shape of every section of
\* _process_event_statistics
SetIf(cond, d, key, value) == IF cond THEN Put(d, key, value) ELSE d

\* the try block of _process_event_statistics: the sections are set in the
\* order of the code, a later assignment replacing an earlier one
ProcessStatisticsTry(stats_data, event_id, t) ==
    IF ~stats_data.is_dict THEN Raise(AttributeError)
    ELSE
    LET has(k) == k \in DOMAIN stats_data
        result0 == [betting_analysis |-> <<>>,
                    event_id |-> event_id,
                    event_info |-> <<>>,
                    head_to_head |-> <<>>,
                    recent_matches |-> <<>>,
                    referee_info |-> <<>>,
                    success |-> TRUE,
                    team_stats |-> <<>>,
                    timestamp |-> t,
                    tournament_standings |-> <<>>]
        event_info == GetOr(stats_data, "eventInformationModel", <<>>)
        result1 ==
            SetIf(event_info # <<>>,
                  result0, "event_info",
                     [event_id |-> Get(event_info, "eventId"),
                      home_team |-> [id |-> Get(GetOr(event_info, "homeTeam", <<>>), "id")]])
        result2 ==
            SetIf(has("tournamentStandingsModel")
               /\ stats_data.tournamentStandingsModel # <<>>
               /\ Len(stats_data.tournamentStandingsModel) > 0,
                  result1, "tournament_standings",
                     [overall_table |-> GetOr(stats_data.tournamentStandingsModel[1], "overAll", <<>>),
                      tournament_name |-> Get(stats_data.tournamentStandingsModel[1], "tournamentName")])
        result3 ==
            SetIf(has("recentEventModel") /\ stats_data.recentEventModel # <<>>,
                  result2, "head_to_head",
                     [overall_matches |->
                          GetOr(stats_data.recentEventModel, "overall", <<>>)])
        result4 ==
            SetIf(has("lastEventModel") /\ stats_data.lastEventModel # <<>>,
                  result3, "recent_form",
                     [home_team |->
                          [id |-> Get(GetOr(stats_data.lastEventModel, "homeTeam", <<>>), "id"),
                           recent_matches |-> GetOr(stats_data.lastEventModel, "homeOverAll", <<>>)]])
        result5 ==
            SetIf(has("soccerIddaaAnalysModel") /\ stats_data.soccerIddaaAnalysModel # <<>>,
                  result4, "betting_analysis",
                     [general_info |->
                          GetOr(stats_data.soccerIddaaAnalysModel,
                                "generalInformations", <<>>)])
        result6 ==
            SetIf(has("soccerRefereePageModel")
               /\ ValidReferee(stats_data.soccerRefereePageModel),
                  result5, "referee_info",
                     [id |-> Get(GetOr(stats_data.soccerRefereePageModel, "referee", <<>>), "id"),
                      recent_matches |-> GetOr(stats_data.soccerRefereePageModel, "refereeMatches", <<>>)])
        league == GetOr(stats_data, "leagueTableModel", <<>>)
        result7 ==
            SetIf(league # <<>>,
                  result6, "tournament_standings",
                     [home_team_position |-> Get(league, "homeTeamPosition"),
                      league_table |->
                          LeagueRows(GetOr(league, "leagueTable", <<>>))])
        h2h_data == GetOr(stats_data, "headToHeadModel", <<>>)
        result8 ==
            SetIf(h2h_data # <<>>,
                  result7, "head_to_head",
                     [recent_matches |->
                          H2HRows(GetOr(h2h_data, "headToHeadMatches", <<>>)),
                      total_matches |-> Get(h2h_data, "totalMatches")])
        recent_form == GetOr(stats_data, "recentFormModel", <<>>)
        result9 ==
            SetIf(recent_form # <<>>,
                  result8, "recent_matches",
                     [away_team_form |->
                          FormRows(GetOr(recent_form, "awayTeamForm", <<>>)),
                      home_team_form |->
                          FormRows(GetOr(recent_form, "homeTeamForm", <<>>))])
        betting_data == GetOr(stats_data, "bettingAnalysisModel", <<>>)
        result10 ==
            SetIf(betting_data # <<>>,
                  result9, "betting_analysis",
                     [odds_movement |-> GetOr(betting_data, "oddsMovement", <<>>),
                      opening_odds |->
                          [home |-> Get(GetOr(betting_data, "openingOdds", <<>>), "home")]])
        referee_data == GetOr(stats_data, "refereeInformation", <<>>)
        result11 ==
            SetIf(referee_data # <<>>,
                  result10, "referee_info",
                     [name |-> Get(referee_data, "refereeName"),
                      nationality |-> Get(referee_data, "nationality")])
        team_stats == GetOr(stats_data, "teamStatisticsModel", <<>>)
        result12 ==
            SetIf(team_stats # <<>>,
                  result11, "team_stats",
                     [home_team |->
                          [attack_strength |->
                               Get(GetOr(team_stats, "homeTeam", <<>>), "attackStrength")]])
    IN  Value(result12)

ProcessEventStatistics(stats_data, event_id, t) ==
    ProcessingExcept(ProcessStatisticsTry(stats_data, event_id, t),
                     "Error processing event statistics", event_id, stats_data)

-----------------------------------------------------------------------------
(* The cache *)

BoolStr(b) == IF b THEN "True" ELSE "False"
LimitStr(limit) == IF limit = None THEN "None" ELSE ToString(limit[1])

\* f"matches_{limit}_{live_only}"
MatchesKey(limit, live_only) ==
    "matches_" \o LimitStr(limit) \o "_" \o BoolStr(live_only)
\* f"event_details_{event_id}"
DetailsKey(event_id) == "event_details_" \o event_id
\* f"event_stats_{event_id}"
StatsKey(event_id) == "event_stats_" \o event_id

CacheKey(o, a) ==
    CASE o = "matches" -> MatchesKey(a.limit, a.live_only)
      [] o = "details" -> DetailsKey(a.event_id)
      [] o = "statistics" -> StatsKey(a.event_id)

\* the TTL each operation compares the age of an entry with
Duration(o) == IF o = "matches" THEN cache_duration ELSE detail_cache_duration

CacheHitMutant(c, key, ttl, t) ==
    key \in DOMAIN c /\ t - c[key].timestamp > ttl
\* `cache_key in self.cache` and `cache_age < duration`
CacheHit(c, key, ttl, t) ==
    key \in DOMAIN c /\ t - c[key].timestamp < ttl

\* every entry is stamped anew
CachePutMutant(c, key, data, t) ==
    [k \in DOMAIN c \cup {key} |->
        [data |-> IF k = key THEN data ELSE c[k].data, timestamp |-> t]]
\* self.cache[cache_key] = {'data': ..., 'timestamp': time.time()}
CachePut(c, key, data, t) ==
    [k \in DOMAIN c \cup {key} |->
        IF k = key THEN [data |-> data, timestamp |-> t] ELSE c[k]]

-----------------------------------------------------------------------------
(* The fetch operations, from the call of requests.get on.  Each yields     *)
(* [exc, ret, cache, lrt]: the exception that left the try block (NoExc:    *)
(* none), the value returned, and self.cache and self.last_request_time as  *)
(* the block leaves them.                                                   *)

Leave(e, r, c, lrt) == [cache |-> c, exc |-> e, lrt |-> lrt, ret |-> r]

\* the processed body is stored whatever use_cache says
StoreMutant(processed, use_cache, key, c, lrt, t) ==
    IF processed.exc # NoExc THEN Leave(processed.exc, NoResult, c, lrt)
    ELSE Leave(NoExc, processed.ret, CachePut(c, key, processed.ret, t), lrt)
\* the processed body is stored in the cache (get_matches: always; the two
\* other fetches: `if use_cache`) and returned
Store(processed, use_cache, key, c, lrt, t) ==
    IF processed.exc # NoExc THEN Leave(processed.exc, NoResult, c, lrt)
    ELSE Leave(NoExc, processed.ret,
               IF use_cache THEN CachePut(c, key, processed.ret, t) ELSE c,
               lrt)

\* `except Exception as e` of get_matches, around the try block
RequestExcept(try, t) ==
    IF try.exc = NoExc THEN try
    ELSE IF Exception(try.exc)
    THEN Leave(NoExc, MatchesFailure("API request failed", try.exc.msg, t),
               try.cache, try.lrt)
    ELSE try

\* `except Exception as e` of get_event_details and of get_event_statistics
NetworkExcept(try, event_id) ==
    IF try.exc = NoExc THEN try
    ELSE IF Exception(try.exc)
    THEN Leave(NoExc,
               EventFailure(ErrorText("Network error", try.exc.msg), event_id),
               try.cache, try.lrt)
    ELSE try

\* the try block of get_matches
GetMatchesTry(resp, a, c, lrt, t) ==
    IF resp.raises THEN Leave(TransportError, NoResult, c, lrt)
    ELSE IF resp.status = 200
    THEN IF ~resp.body.decodable THEN Leave(JSONDecodeError, NoResult, c, lrt)
         ELSE Store(ProcessMatchesData(resp.body, a.limit, a.live_only, t),
                    TRUE, MatchesKey(a.limit, a.live_only), c, lrt, t)
    ELSE Leave(NoExc,
               [error |-> HttpErrorText(resp), success |-> FALSE, timestamp |-> t],
               c, lrt)

GetMatchesResult(resp, a, c, lrt, t) ==
    RequestExcept(GetMatchesTry(resp, a, c, lrt, t), t)

\* the try block of get_event_details
GetEventDetailsTry(resp, a, c, lrt, t) ==
    IF resp.raises THEN Leave(TransportError, NoResult, c, lrt)
    ELSE \* self.last_request_time = time.time()
    IF resp.status = 200
    THEN IF ~resp.body.decodable THEN Leave(JSONDecodeError, NoResult, c, t)
         ELSE IF ~resp.body.is_dict THEN Leave(AttributeError, NoResult, c, t)
         ELSE IF resp.body.isSuccess /\ resp.body.has_data
         THEN Store(ProcessDetailedEvent(resp.body.data, a.event_id, t),
                    a.use_cache, DetailsKey(a.event_id), c, t, t)
         ELSE Leave(NoExc, UnsuccessfulResponse(a.event_id), c, t)
    ELSE Leave(NoExc, EventFailure(HttpErrorText(resp), a.event_id), c, t)

GetEventDetailsResult(resp, a, c, lrt, t) ==
    NetworkExcept(GetEventDetailsTry(resp, a, c, lrt, t), a.event_id)

\* the try block of get_event_statistics
GetEventStatisticsTry(resp, a, c, lrt, t) ==
    IF resp.raises THEN Leave(TransportError, NoResult, c, lrt)
    ELSE \* self.last_request_time = time.time()
    IF resp.status = 200
    THEN IF ~resp.body.decodable
         THEN IF JsonDecodeErrorClause(JSONDecodeError)
              THEN Leave(NoExc,
                         EventFailure(ErrorText("JSON parsing failed",
                                                JSONDecodeError.msg),
                                      a.event_id),
                         c, t)
              ELSE Leave(JSONDecodeError, NoResult, c, t)
         ELSE IF ~resp.body.is_dict THEN Leave(AttributeError, NoResult, c, t)
         ELSE IF resp.body.isSuccess /\ resp.body.has_data
         THEN Store(ProcessEventStatistics(resp.body.data, a.event_id, t),
                    a.use_cache, StatsKey(a.event_id), c, t, t)
         ELSE Leave(NoExc, UnsuccessfulResponse(a.event_id), c, t)
    ELSE Leave(NoExc, EventFailure(HttpErrorText(resp), a.event_id), c, t)

GetEventStatisticsResult(resp, a, c, lrt, t) ==
    NetworkExcept(GetEventStatisticsTry(resp, a, c, lrt, t), a.event_id)

Fetch(o, resp, a, c, lrt, t) ==
    CASE o = "matches" -> GetMatchesResult(resp, a, c, lrt, t)
      [] o = "details" -> GetEventDetailsResult(resp, a, c, lrt, t)
      [] o = "statistics" -> GetEventStatisticsResult(resp, a, c, lrt, t)

Responses(o, a) ==
    CASE o = "matches" -> MatchesResponses
      [] o = "details" -> DetailResponses(a.event_id)
      [] o = "statistics" -> StatsResponses

-----------------------------------------------------------------------------
(* Pacing *)

IntervalMutant(o) == min_request_interval
\* min_request_interval in _apply_rate_limit, enhanced_interval in the
\* detail and statistics fetches
Interval(o) ==
    IF o = "matches" THEN min_request_interval ELSE min_request_interval * 2

DelaysMutant(o) ==
    IF o = "matches" THEN 0..HumanDelayMax ELSE 0..ExtraDelayMax
\* random.uniform(1.5, 3.0) and random.uniform(2.0, 4.0)
Delays(o) ==
    IF o = "matches" THEN HumanDelayMin..HumanDelayMax
    ELSE ExtraDelayMin..ExtraDelayMax

-----------------------------------------------------------------------------
(* The state machine *)

NoArgs == [event_id |-> "", limit |-> None, live_only |-> FALSE, use_cache |-> FALSE]

Start(who) ==
    /\ now = StartTime
    /\ callers = who
    /\ cache = [k \in {} |-> NoResult]
    /\ last_request_time = 0
    /\ cache_duration \in 1..MaxTTL
    /\ detail_cache_duration \in 1..MaxTTL
    /\ pc = [c \in AllCallers |-> "idle"]
    /\ op = [c \in AllCallers |-> "none"]
    /\ args = [c \in AllCallers |-> NoArgs]
    /\ wake_at = [c \in AllCallers |-> 0]
    /\ call_start = [c \in AllCallers |-> 0]
    /\ lrt_seen = [c \in AllCallers |-> 0]
    /\ rate_waited = [c \in AllCallers |-> FALSE]
    /\ delay = [c \in AllCallers |-> 0]
    /\ dispatch_at = [c \in AllCallers |-> 0]
    /\ outcome = [c \in AllCallers |-> "none"]
    /\ served = [c \in AllCallers |-> "none"]
    /\ result = [c \in AllCallers |-> NoResult]
    /\ dispatch_times = <<>>

\* SportsAPIClient.__init__, used by a single caller
Init == Start({"t1"})

\* a caller at a statement that takes no time: the interval check, the return
Running(c) == pc[c] \in {"rate_limit", "done", "raised"}
\* a caller inside time.sleep()
Asleep(c) == pc[c] \in {"rate_sleep", "delay"}
\* a caller whose request has been in flight for as long as the model follows it
Overdue(c) == pc[c] = "in_flight" /\ now - dispatch_at[c] >= MaxLatency

Min(S) == CHOOSE x \in S : \A y \in S : x <= y

\* the clock advances, while every caller is idle, asleep or waiting for a
\* response: by one tick when a caller may act at any moment, and to the end
\* of the first sleep when all callers are asleep.  Calls start until MaxTime;
\* the calls running then are followed to their end.
Tick ==
    /\ \A c \in callers : ~Running(c) /\ ~Overdue(c) /\ (Asleep(c) => now < wake_at[c])
    /\ \/ now < MaxTime
       \/ \E c \in callers : pc[c] # "idle"
    /\ now' = IF \A c \in callers : Asleep(c)
              THEN Min({wake_at[c] : c \in callers})
              ELSE now + 1
    /\ UNCHANGED <<callers, cache, last_request_time, cache_duration,
                   detail_cache_duration, pc, op, args, wake_at, call_start,
                   lrt_seen, rate_waited, delay, dispatch_at, outcome, served,
                   result, dispatch_times>>

\* entry of a fetch: the cache check
Begin(c, o, a) ==
    /\ c \in callers
    /\ pc[c] = "idle"
    /\ now <= MaxTime
    /\ op' = [op EXCEPT ![c] = o]
    /\ args' = [args EXCEPT ![c] = a]
    /\ call_start' = [call_start EXCEPT ![c] = now]
    /\ IF a.use_cache /\ CacheHit(cache, CacheKey(o, a), Duration(o), now)
       THEN /\ pc' = [pc EXCEPT ![c] = "done"]
            /\ result' = [result EXCEPT ![c] = cache[CacheKey(o, a)].data]
            /\ served' = [served EXCEPT ![c] = "cache"]
       ELSE /\ pc' = [pc EXCEPT ![c] = "rate_limit"]
            /\ result' = [result EXCEPT ![c] = NoResult]
            /\ served' = [served EXCEPT ![c] = "network"]
    /\ UNCHANGED <<now, callers, cache, last_request_time, cache_duration,
                   detail_cache_duration, wake_at, lrt_seen, rate_waited,
                   delay, dispatch_at, outcome, dispatch_times>>

get_matches(c) ==
    \E la \in MatchesArgs :
        Begin(c, "matches", [event_id |-> "", limit |-> la[1],
                             live_only |-> la[2], use_cache |-> TRUE])

get_event_details(c) ==
    \E event_id \in EventIds, use_cache \in BOOLEAN :
        Begin(c, "details", [event_id |-> event_id, limit |-> None,
                             live_only |-> FALSE, use_cache |-> use_cache])

get_event_statistics(c) ==
    \E event_id \in EventIds, use_cache \in BOOLEAN :
        Begin(c, "statistics", [event_id |-> event_id, limit |-> None,
                                live_only |-> FALSE, use_cache |-> use_cache])

\* the interval check: reads the clock and last_request_time, and sleeps for
\* what is left of the interval
RateLimitCheck(c) ==
    /\ pc[c] = "rate_limit"
    /\ lrt_seen' = [lrt_seen EXCEPT ![c] = last_request_time]
    /\ LET time_since_last == now - last_request_time IN
       IF time_since_last < Interval(op[c])
       THEN /\ wake_at' = [wake_at EXCEPT ![c] =
                              now + (Interval(op[c]) - time_since_last)]
            /\ rate_waited' = [rate_waited EXCEPT ![c] = TRUE]
       ELSE /\ wake_at' = [wake_at EXCEPT ![c] = now]
            /\ rate_waited' = [rate_waited EXCEPT ![c] = FALSE]
    /\ pc' = [pc EXCEPT ![c] = "rate_sleep"]
    /\ UNCHANGED <<now, callers, cache, last_request_time, cache_duration,
                   detail_cache_duration, op, args, call_start, delay,
                   dispatch_at, outcome, served, result, dispatch_times>>

\* the sleep is over: _apply_rate_limit records the time of the request, and
\* the fetch draws its randomized delay and sleeps again
HumanDelay(c) ==
    /\ pc[c] = "rate_sleep"
    /\ now >= wake_at[c]
    /\ last_request_time' =
           IF op[c] = "matches" THEN now ELSE last_request_time
    /\ \E d \in Delays(op[c]) :
           /\ delay' = [delay EXCEPT ![c] = d]
           /\ wake_at' = [wake_at EXCEPT ![c] = now + d]
    /\ pc' = [pc EXCEPT ![c] = "delay"]
    /\ UNCHANGED <<now, callers, cache, cache_duration, detail_cache_duration,
                   op, args, call_start, lrt_seen, rate_waited, dispatch_at,
                   outcome, served, result, dispatch_times>>

\* requests.get is called
Dispatch(c) ==
    /\ pc[c] = "delay"
    /\ now >= wake_at[c]
    /\ dispatch_at' = [dispatch_at EXCEPT ![c] = now]
    /\ dispatch_times' = <<now>>
    /\ pc' = [pc EXCEPT ![c] = "in_flight"]
    /\ UNCHANGED <<now, callers, cache, last_request_time, cache_duration,
                   detail_cache_duration, op, args, wake_at, call_start,
                   lrt_seen, rate_waited, delay, outcome, served, result>>

\* requests.get returns or raises, and the fetch runs to its end
Respond(c) ==
    /\ pc[c] = "in_flight"
    /\ \E resp \in Responses(op[c], args[c]) :
       \E end \in {Fetch(op[c], resp, args[c], cache, last_request_time, now)} :
         /\ outcome' = [outcome EXCEPT ![c] = resp.kind]
         /\ cache' = end.cache
         /\ last_request_time' = end.lrt
         /\ result' = [result EXCEPT ![c] = end.ret]
         /\ pc' = [pc EXCEPT ![c] = IF end.exc = NoExc THEN "done" ELSE "raised"]
    \* what the call remembered of its pacing is dropped
    /\ wake_at' = [wake_at EXCEPT ![c] = 0]
    /\ call_start' = [call_start EXCEPT ![c] = 0]
    /\ lrt_seen' = [lrt_seen EXCEPT ![c] = 0]
    /\ rate_waited' = [rate_waited EXCEPT ![c] = FALSE]
    /\ delay' = [delay EXCEPT ![c] = 0]
    /\ dispatch_at' = [dispatch_at EXCEPT ![c] = 0]
    /\ UNCHANGED <<now, callers, cache_duration, detail_cache_duration, op,
                   args, served, dispatch_times>>

\* the caller takes the result (or the exception) and is ready to call again
Return(c) ==
    /\ pc[c] \in {"done", "raised"}
    /\ pc' = [pc EXCEPT ![c] = "idle"]
    /\ op' = [op EXCEPT ![c] = "none"]
    /\ args' = [args EXCEPT ![c] = NoArgs]
    /\ call_start' = [call_start EXCEPT ![c] = 0]
    /\ outcome' = [outcome EXCEPT ![c] = "none"]
    /\ served' = [served EXCEPT ![c] = "none"]
    /\ result' = [result EXCEPT ![c] = NoResult]
    /\ UNCHANGED <<now, callers, cache, last_request_time, cache_duration,
                   detail_cache_duration, wake_at, lrt_seen, rate_waited,
                   delay, dispatch_at, dispatch_times>>

Next ==
    \/ Tick
    \/ \E c \in AllCallers : get_matches(c)
    \/ \E c \in AllCallers : get_event_details(c)
    \/ \E c \in AllCallers : get_event_statistics(c)
    \/ \E c \in AllCallers : RateLimitCheck(c)
    \/ \E c \in AllCallers : HumanDelay(c)
    \/ \E c \in AllCallers : Dispatch(c)
    \/ \E c \in AllCallers : Respond(c)
    \/ \E c \in AllCallers : Return(c)

Spec == Init /\ [][Next]_vars

-----------------------------------------------------------------------------
(* The normalizers called on their own *)

\* sequences over S of length at most n
SeqUpTo(S, n) == UNION { [1..k -> S] : k \in 0..n }

RawEvents ==
    { Event(i, il, IF i = "101" THEN <<MainMarket>> ELSE <<>>) :
        i \in EventIds, il \in BOOLEAN } \cup {BadEvent}

\* decoded bodies: an event list under a true flag, and the malformed ones
RawMatches ==
    { Body(TRUE, TRUE, TRUE, TRUE, EventsData(evs)) : evs \in SeqUpTo(RawEvents, MaxEvents) }
    \cup
    { Body(TRUE, TRUE, FALSE, TRUE, EventsData(<<Event("101", TRUE, <<>>)>>)),
      Body(TRUE, TRUE, TRUE, FALSE, NullData),
      Body(TRUE, TRUE, TRUE, TRUE, NullData),
      Body(TRUE, TRUE, TRUE, TRUE,
           [events |-> <<>>, has_events |-> FALSE, is_dict |-> TRUE]),
      Body(TRUE, FALSE, FALSE, FALSE, NullData) }

Limits == {None} \cup { <<n>> : n \in 0..MaxLimit }

RawOdds ==
    { <<>>,
      <<Odd(1, "1.80"), Odd(0, "3.20"), Odd(2, "4.50")>>,
      <<Odd(2, "2.10"), Odd(3, "9.00")>>,
      <<Odd(1, "1.50"), Odd(1, "1.60")>> }

RawMarkets ==
    { Market(t, PyInt(1), "", o) : t \in {PyInt(1), PyStr("1"), PyInt(2)}, o \in RawOdds }

TypeCodes == { PyInt(n) : n \in 0..MaxType } \cup { PyStr(ToString(n)) : n \in 0..MaxType }

\* the sub-types tried: those of the sub-type table, some of the exact table
\* and one of neither, as integers and as strings
SubTypeNumbers ==
    {1, 2, 3, 4, 6, 36, 77, 84, 85, 88, 89, 91, 604, 698, 699, 729, 730, 821, 999}

SubTypeCodes ==
    { PyInt(n) : n \in SubTypeNumbers } \cup
    { PyStr(ToString(n)) : n \in SubTypeNumbers }

SpecialValues == {"", "1.5"}

RawDetails(e) ==
    DetailPayloads(e) \cup {NullDetail} \cup
    { DetailData(e, markets) : markets \in SeqUpTo(RawMarkets, MaxMarkets) }

RawStatistics ==
    UNION { StatsDataOver(K) : K \in { L \in SUBSET RawKeys : Cardinality(L) <= MaxModels } }
    \cup {NullStats}

\* a caller that may call a normalizer
Ready(c) == c \in callers /\ pc[c] = "idle" /\ now < StartTime + Readings

\* a caller calls a method that takes no time: r is what the method does
Call(c, o, a, r) ==
    /\ Ready(c)
    /\ op' = [op EXCEPT ![c] = o]
    /\ args' = [args EXCEPT ![c] = a]
    /\ result' = [result EXCEPT ![c] = r.ret]
    /\ pc' = [pc EXCEPT ![c] = IF r.exc = NoExc THEN "done" ELSE "raised"]
    /\ UNCHANGED <<now, callers, cache, last_request_time, cache_duration,
                   detail_cache_duration, wake_at, call_start, lrt_seen,
                   rate_waited, delay, dispatch_at, outcome, served,
                   dispatch_times>>

process_matches_data(c) ==
    /\ Ready(c)
    /\ \E api_data \in RawMatches, limit \in Limits, live_only \in BOOLEAN :
           Call(c, "_process_matches_data",
                [api_data |-> api_data, limit |-> limit, live_only |-> live_only],
                ProcessMatchesData(api_data, limit, live_only, now))

extract_main_odds(c) ==
    /\ Ready(c)
    /\ \E markets \in SeqUpTo(RawMarkets, MaxMarkets) :
           Call(c, "_extract_main_odds", [markets |-> markets],
                Value(ExtractMainOdds(markets)))

get_market_description(c) ==
    /\ Ready(c)
    /\ \E market_type \in TypeCodes, market_sub_type \in SubTypeCodes,
          special_odd_value \in SpecialValues :
           Call(c, "_get_market_description",
                [market_sub_type |-> market_sub_type, market_type |-> market_type,
                 special_odd_value |-> special_odd_value],
                Value(GetMarketDescription(market_type, market_sub_type,
                                           special_odd_value)))

categorize_market(c) ==
    /\ Ready(c)
    /\ \E market_type \in TypeCodes, market_sub_type \in SubTypeCodes :
           Call(c, "_categorize_market",
                [market_sub_type |-> market_sub_type, market_type |-> market_type],
                Value(CategorizeMarket(market_type, market_sub_type)))

process_detailed_event(c) ==
    /\ Ready(c)
    /\ \E event_id \in EventIds :
           \E event_data \in RawDetails(event_id) :
               Call(c, "_process_detailed_event",
                    [event_data |-> event_data, event_id |-> event_id],
                    ProcessDetailedEvent(event_data, event_id, now))

process_event_statistics(c) ==
    /\ Ready(c)
    /\ \E stats_data \in RawStatistics, event_id \in EventIds :
           Call(c, "_process_event_statistics",
                [event_id |-> event_id, stats_data |-> stats_data],
                ProcessEventStatistics(stats_data, event_id, now))

NormalizersInit ==
    /\ Init
    /\ cache_duration = MaxTTL
    /\ detail_cache_duration = MaxTTL

NormalizersNext ==
    \/ Tick
    \/ \E c \in AllCallers : process_matches_data(c)
    \/ \E c \in AllCallers : extract_main_odds(c)
    \/ \E c \in AllCallers : get_market_description(c)
    \/ \E c \in AllCallers : categorize_market(c)
    \/ \E c \in AllCallers : process_detailed_event(c)
    \/ \E c \in AllCallers : process_event_statistics(c)
    \/ \E c \in AllCallers : Return(c)

Normalizers == NormalizersInit /\ [][NormalizersNext]_vars

-----------------------------------------------------------------------------
(* Two threads on one client.  The client has no lock: the statements of   *)
(* the two threads interleave as the steps of the state machine do.  Each  *)
(* thread starts its calls while the clock still reads StartTime.          *)

Starting == now = StartTime

ConcurrentInit ==
    /\ Start(AllCallers)
    /\ cache_duration = MaxTTL
    /\ detail_cache_duration = MaxTTL

ConcurrentNext ==
    \/ Tick
    \/ \E c \in AllCallers : Starting /\ get_matches(c)
    \/ \E c \in AllCallers : Starting /\ get_event_details(c)
    \/ \E c \in AllCallers : Starting /\ get_event_statistics(c)
    \/ \E c \in AllCallers : RateLimitCheck(c)
    \/ \E c \in AllCallers : HumanDelay(c)
    \/ \E c \in AllCallers : Dispatch(c)
    \/ \E c \in AllCallers : Respond(c)
    \/ \E c \in AllCallers : Return(c)

Concurrent == ConcurrentInit /\ [][ConcurrentNext]_vars

-----------------------------------------------------------------------------
(* Properties *)

\* a caller whose call has just returned (not raised)
Returned(c) == c \in callers /\ pc[c] = "done"
\* a caller whose request has just been dispatched
Dispatched(c) == c \in callers /\ pc[c] = "in_flight"
\* the step is the entry of a call by c
Enters(c) == c \in callers /\ pc[c] = "idle" /\ pc'[c] # "idle"
\* the step is the end of a request by c
Ends(c) == c \in callers /\ pc[c] = "in_flight" /\ pc'[c] # "in_flight"

\* C1: failures are never cached: every entry of the cache holds a result
\* whose success flag is true.
FailuresNeverCached ==
    \A k \in DOMAIN cache : cache[k].data.success

\* C2: fresh cache hit: a cache-enabled fetch for a key under which a
\* successful result V is stored, made while now - created_at < TTL (TTL > 0),
\* returns exactly V, from the cache.
FreshCacheHit ==
    [][\A c \in callers : \A k \in DOMAIN cache :
          ( /\ Enters(c)
            /\ args'[c].use_cache
            /\ k = CacheKey(op'[c], args'[c])
            /\ cache[k].data.success
            /\ Duration(op'[c]) > 0
            /\ now - cache[k].timestamp < Duration(op'[c]) )
          => ( /\ pc'[c] = "done"
               /\ served'[c] = "cache"
               /\ result'[c] = cache[k].data
               /\ cache' = cache )]_vars

\* C2 witness: a details call was served a stored successful result
FreshCacheHitWitness ==
    \E c \in callers :
        /\ Returned(c)
        /\ served[c] = "cache"
        /\ op[c] = "details"
        /\ result[c].success
        /\ result[c] = cache[DetailsKey(args[c].event_id)].data

\* C3: a stale entry is a miss and is not deleted: a fetch for a key whose
\* entry is stale goes to the network and returns a failure when the request
\* fails; no step removes a key; an entry is replaced only by the result of a
\* successful fetch.
StaleEntriesKept ==
    [][ /\ \A c \in callers :
             ( /\ Enters(c)
               /\ CacheKey(op'[c], args'[c]) \in DOMAIN cache
               /\ now - cache[CacheKey(op'[c], args'[c])].timestamp
                      >= Duration(op'[c]) )
             => pc'[c] = "rate_limit" /\ served'[c] = "network"
        /\ \A c \in callers :
             (Ends(c) /\ pc'[c] = "done" /\ outcome'[c] \in {"exception", "http_error"})
             => ~result'[c].success
        /\ \A k \in DOMAIN cache :
             /\ k \in DOMAIN cache'
             /\ cache'[k] # cache[k] => cache'[k].data.success ]_vars

\* C4: minimum spacing: two consecutive outbound requests are dispatched at
\* least min_request_interval apart.
MinimumSpacing ==
    [][ (dispatch_times # <<>> /\ dispatch_times' # dispatch_times)
        => dispatch_times'[1] - dispatch_times[1] >= min_request_interval ]_vars

\* C5: the time of last request is written only by a fetch whose randomized
\* delay has completed, never before that delay.
LastRequestTimeAfterDelay ==
    [][ last_request_time' # last_request_time
        => \E c \in callers :
              /\ pc'[c] # pc[c]
              /\ \/ pc[c] = "in_flight"
                 \/ pc[c] = "delay" /\ now >= wake_at[c] ]_vars

\* C6: intensities: a listing request is not dispatched before
\* last_request_time + min_request_interval, a details or statistics request
\* not before last_request_time + 2 * min_request_interval, with
\* last_request_time as read by the call's rate-limit check; the randomized
\* delay itself does not start before that time.
Intensities ==
    \A c \in callers :
        LET least == lrt_seen[c] +
                     (IF op[c] = "matches" THEN min_request_interval
                      ELSE 2 * min_request_interval)
        IN  /\ pc[c] = "delay" => wake_at[c] - delay[c] >= least
            /\ pc[c] = "in_flight" => dispatch_at[c] >= least

\* C6 witness: a details or statistics request was dispatched after its
\* rate-limit check had to wait
IntensitiesWitness ==
    \E c \in callers :
        /\ Dispatched(c)
        /\ op[c] \in {"details", "statistics"}
        /\ rate_waited[c]
        /\ call_start[c] < lrt_seen[c] + 2 * min_request_interval

\* C7: every request is dispatched after a randomized delay within the range
\* of its operation, so not less than 1.5 s (listing) or 2.0 s (details,
\* statistics) after its call started, whether or not the rate limit waited.
RandomizedDelay ==
    \A c \in callers :
        pc[c] = "in_flight" =>
            IF op[c] = "matches"
            THEN /\ delay[c] \in HumanDelayMin..HumanDelayMax
                 /\ dispatch_at[c] - call_start[c] >= HumanDelayMin
            ELSE /\ delay[c] \in ExtraDelayMin..ExtraDelayMax
                 /\ dispatch_at[c] - call_start[c] >= ExtraDelayMin

\* C7 witness: a details request dispatched without a rate-limit wait
RandomizedDelayWitness ==
    \E c \in callers :
        /\ Dispatched(c)
        /\ op[c] = "details"
        /\ ~rate_waited[c]
        /\ dispatch_at[c] = call_start[c] + delay[c]

\* C8: no fault escapes a fetch: no call ends by raising, and a call whose
\* request met a fault returns success=false with an error message.
NoFaultEscapes ==
    \A c \in callers :
        /\ pc[c] # "raised"
        /\ (Returned(c) /\ served[c] = "network" /\ outcome[c] \in FaultKinds)
           => /\ ~result[c].success
              /\ "error" \in DOMAIN result[c]
              /\ result[c].error[1] # ""

\* C8 witness: a statistics call whose payload had an unexpected shape
\* returned a failure
NoFaultEscapesWitness ==
    \E c \in callers :
        /\ Returned(c)
        /\ op[c] = "statistics"
        /\ outcome[c] = "not_dict"
        /\ ~result[c].success

\* the result an operation returns when the transport raises
TransportFailure(c) ==
    Fetch(op[c], Response("exception", TRUE, 0, Body(FALSE, FALSE, FALSE, FALSE, NullData)),
          args[c], cache, last_request_time, now).ret

\* C9: an HTTP 200 response with an undecodable body is returned as a failure
\* whose error label is not the one the operation gives a transport failure.
MalformedDistinguished ==
    \A c \in callers :
        (Returned(c) /\ served[c] = "network" /\ outcome[c] = "undecodable")
        => /\ ~result[c].success
           /\ result[c].error[1] # TransportFailure(c).error[1]

\* C10: every failure returned by get_event_details or get_event_statistics
\* carries an error message and the event_id of the call.
FailureCarriesEventId ==
    \A c \in callers :
        (Returned(c) /\ op[c] \in {"details", "statistics"} /\ ~result[c].success)
        => /\ "error" \in DOMAIN result[c]
           /\ result[c].error[1] # ""
           /\ "event_id" \in DOMAIN result[c]
           /\ result[c].event_id = args[c].event_id

\* C10 witness: a details call failed on a transport exception and a
\* statistics call on a non-200 status
FailureCarriesEventIdWitness ==
    \E c \in callers :
        /\ Returned(c)
        /\ op[c] = "details"
        /\ outcome[c] = "exception"
        /\ ~result[c].success
        /\ result[c].event_id = "102"

-----------------------------------------------------------------------------
(* Properties of the normalizers, checked under Normalizers *)

\* a caller to which method o has just returned
ReturnedFrom(c, o) == Returned(c) /\ op[c] = o

\* s is the beginning of t
Prefix(s, t) == Len(s) <= Len(t) /\ \A j \in 1..Len(s) : s[j] = t[j]

\* the event list of a decoded body, empty when it has none
EventsOf(api_data) == api_data.data.events
\* what identifies an event in a list, and a match in the result
EventMarks(events) == [j \in 1..Len(events) |-> <<events[j].i, events[j].il>>]
MatchMarks(matches) ==
    [j \in 1..Len(matches) |-> <<matches[j].event_id, matches[j].is_live>>]
IsLive(event) == event.il
\* the events that pass the filter
Qualifying(events, live_only) ==
    IF live_only THEN SelectSeq(events, IsLive) ELSE events

\* a body that lacks the true flag, the data object or the event list, or
\* that has an event that is not an object
MalformedMatches(api_data) ==
    \/ ~api_data.is_dict
    \/ ~api_data.isSuccess
    \/ ~api_data.has_data
    \/ ~api_data.data.is_dict
    \/ ~api_data.data.has_events
    \/ \E j \in 1..Len(EventsOf(api_data)) : ~EventsOf(api_data)[j].is_dict

\* C11: _process_matches_data returns a failure (success false, no matches
\* list) whenever the flag is false or absent, the data object or the event
\* list is absent, or an event cannot be processed; it never returns
\* success with a partial or empty list for such a body
MatchesValidated ==
    \A c \in callers :
        ReturnedFrom(c, "_process_matches_data")
        /\ MalformedMatches(args[c].api_data)
        => /\ ~result[c].success
           /\ "matches" \notin DOMAIN result[c]

\* C12: with live_only the matches returned are the live events, in their
\* order and up to the limit, none left out before the cut and all of them
\* when no limit is given; without live_only no event is filtered out
LiveFilter ==
    \A c \in callers :
        ReturnedFrom(c, "_process_matches_data") /\ result[c].success
        => LET events == EventsOf(args[c].api_data)
               passing == Qualifying(events, args[c].live_only)
               matches == result[c].matches
           IN  /\ Prefix(MatchMarks(matches), EventMarks(passing))
               /\ args[c].live_only => \A j \in 1..Len(matches) : matches[j].is_live
               /\ args[c].limit = None => Len(matches) = Len(passing)

\* live_only was set, a live event came after one that is not live, and
\* live events were returned
LiveFilterWitness ==
    \E c \in callers :
        /\ ReturnedFrom(c, "_process_matches_data") /\ result[c].success
        /\ args[c].live_only
        /\ LET events == EventsOf(args[c].api_data) IN
           /\ Len(events) >= 3
           /\ ~events[1].il /\ events[2].il /\ ~events[3].il
        /\ Len(result[c].matches) = 1

\* C13: for a limit n >= 0 the matches returned are the first min(n, q) of
\* the q events that pass the filter, in their order; with no limit, all q
LimitTruncation ==
    \A c \in callers :
        ReturnedFrom(c, "_process_matches_data") /\ result[c].success
        => LET passing == Qualifying(EventsOf(args[c].api_data), args[c].live_only)
               q == Len(passing)
               n == IF args[c].limit = None THEN q ELSE args[c].limit[1]
               matches == result[c].matches
           IN  /\ Len(matches) = IF n < q THEN n ELSE q
               /\ Prefix(MatchMarks(matches), EventMarks(passing))

MainOddsKeys == {"home_win", "draw", "away_win"}
SelectionOf(key) ==
    CASE key = "home_win" -> 1 [] key = "draw" -> 0 [] key = "away_win" -> 2
\* the places of the markets of type 1
MainMarketsOf(markets) ==
    { k \in 1..Len(markets) : ~markets[k].t.is_str /\ markets[k].t.v = "1" }

\* C14: main_odds comes from the first market of type 1 only: a key of
\* {home_win, draw, away_win} is there exactly when that market has a
\* selection numbered 1, 0 or 2, with the odd of such a selection; it is
\* empty when no market has type 1
MainOddsFromFirstMarket ==
    \A c \in callers :
        ReturnedFrom(c, "_extract_main_odds")
        => LET markets == args[c].markets
               mains == MainMarketsOf(markets)
               main_odds == result[c]
           IN  IF mains = {} THEN DOMAIN main_odds = {}
               ELSE LET odds == markets[Min(mains)].o IN
                    /\ DOMAIN main_odds \subseteq MainOddsKeys
                    /\ \A key \in MainOddsKeys :
                         LET at == { j \in 1..Len(odds) : odds[j].no = SelectionOf(key) }
                         IN  IF at = {} THEN key \notin DOMAIN main_odds
                             ELSE /\ key \in DOMAIN main_odds
                                  /\ \E j \in at : main_odds[key] = odds[j].odd

\* two markets of type 1 with different selections, the first with all three
MainOddsFromFirstMarketWitness ==
    \E c \in callers :
        /\ ReturnedFrom(c, "_extract_main_odds")
        /\ MainMarketsOf(args[c].markets) = {1, 2}
        /\ args[c].markets[1].o # args[c].markets[2].o
        /\ args[c].markets[2].o # <<>>
        /\ DOMAIN result[c] = MainOddsKeys

\* the number a type code stands for, as an integer or as a decimal string
NumberOf(code) == CHOOSE n \in 0..MaxType : ToString(n) = code.v

\* the category of each type code
CategoryOf(n) ==
    IF n \in {1, 5, 10} THEN "main_markets"
    ELSE IF n \in {2, 3, 8} THEN "goals_markets"
    ELSE IF n \in {4, 6} THEN "handicap_markets"
    ELSE IF n \in {7, 9, 14, 15} THEN "player_markets"
    ELSE IF n \in {11, 12, 13} THEN "events_markets"
    ELSE "other_markets"

\* C15: every type code gets the one category its number has (1, 5, 10 main;
\* 2, 3, 8 goals; 4, 6 handicap; 7, 9, 14, 15 player; 11, 12, 13 events;
\* any other code other), the same for the integer and the string form and
\* whatever the sub-type
CategoryByTypeOnly ==
    \A c \in callers :
        ReturnedFrom(c, "_categorize_market")
        => result[c] = CategoryOf(NumberOf(args[c].market_type))

\* an integer type code of a category other than the last was categorized
CategoryByTypeOnlyWitness ==
    \E c \in callers :
        /\ ReturnedFrom(c, "_categorize_market")
        /\ ~args[c].market_type.is_str
        /\ args[c].market_type.v = "12"
        /\ args[c].market_sub_type.v = "999"
        /\ result[c] = "events_markets"

\* the key "<type>.<sub-type>" of a call of _get_market_description
KeyOf(a) == a.market_type.v \o "." \o a.market_sub_type.v
ExactKeys == DOMAIN market_descriptions("")
\* the entries of the exact table that take the special value: what comes
\* before it, and the numeral that stands for an absent one
Templates ==
    ("2.604" :> <<"Total Goals Over/Under ", "2.5">>) @@
    ("2.1" :> <<"Match Result & Total Over/Under ", "2.5">>) @@
    ("4.1" :> <<"Asian Handicap ", "0">>) @@
    ("4.2" :> <<"Asian Handicap - First Half ", "0">>) @@
    ("6.1" :> <<"European Handicap ", "0">>) @@
    ("6.2" :> <<"European Handicap - First Half ", "0">>) @@
    ("8.1" :> <<"Home Team Total Goals Over/Under ", "1.5">>) @@
    ("8.2" :> <<"Away Team Total Goals Over/Under ", "1.5">>) @@
    ("11.1" :> <<"Corners Over/Under ", "9.5">>) @@
    ("11.2" :> <<"Corners Handicap ", "0">>) @@
    ("12.1" :> <<"Cards Over/Under ", "3.5">>) @@
    ("12.2" :> <<"Cards Handicap ", "0">>)

\* the description by type alone: the table's, or "Market Type <type>" for a
\* type outside 1..15
TypeOnly(code) ==
    IF NumberOf(code) \in 1..15
    THEN main_type_descriptions[ToString(NumberOf(code))]
    ELSE "Market Type " \o code.v
\* what the last tier makes of a call
ThirdTierText(a) ==
    IF a.special_odd_value # ""
    THEN TypeOnly(a.market_type) \o " (" \o a.special_odd_value \o ")"
    ELSE TypeOnly(a.market_type) \o "." \o a.market_sub_type.v

\* C16: when "<type>.<sub-type>" is in the exact table the description is
\* that entry and no later tier is consulted: a fixed entry whatever the
\* special value, and a templated entry with the special value when there is
\* one ("Asian Handicap 1.5") and with its fixed numeral when there is none
ExactMatchWins ==
    \A c \in callers :
        ReturnedFrom(c, "_get_market_description") /\ KeyOf(args[c]) \in ExactKeys
        => LET a == args[c]
               key == KeyOf(a)
           IN  /\ result[c] # ThirdTierText(a)
               /\ result[c] # "Goals & Statistics (" \o a.special_odd_value \o ")"
               /\ IF key \in DOMAIN Templates
                  THEN result[c] =
                           Templates[key][1] \o
                           (IF a.special_odd_value # "" THEN a.special_odd_value
                            ELSE Templates[key][2])
                  ELSE result[c] = market_descriptions("")[key]

\* type 4, sub-type 1 and special value "1.5" were described
ExactMatchWinsWitness ==
    \E c \in callers :
        /\ ReturnedFrom(c, "_get_market_description")
        /\ args[c].market_type = PyInt(4)
        /\ args[c].market_sub_type = PyInt(1)
        /\ args[c].special_odd_value = "1.5"
        /\ result[c] = "Asian Handicap 1.5"

\* C17: a market of type 2 whose key is not in the exact table is described
\* as "Goals & Statistics (<special value>)" when it has a special value, and
\* by the sub-type table when it has none and its sub-type is in that table
TypeTwoSecondTier ==
    \A c \in callers :
        /\ ReturnedFrom(c, "_get_market_description")
        /\ NumberOf(args[c].market_type) = 2
        /\ KeyOf(args[c]) \notin ExactKeys
        => LET a == args[c] IN
           /\ a.special_odd_value # ""
              => result[c] = "Goals & Statistics (" \o a.special_odd_value \o ")"
           /\ a.special_odd_value = "" /\ a.market_sub_type.v \in DOMAIN subtype_patterns
              => result[c] = subtype_patterns[a.market_sub_type.v]

\* a call the first two tiers leave open: no exact entry, and not a type 2
\* with a special value or a sub-type of the sub-type table
Unresolved(a) ==
    /\ KeyOf(a) \notin ExactKeys
    /\ ~ /\ NumberOf(a.market_type) = 2
         /\ \/ a.special_odd_value # ""
            \/ a.market_sub_type.v \in DOMAIN subtype_patterns

\* C18: what the first two tiers leave open is described by the type alone
\* ("Market Type <type>" outside 1..15), followed by " (<special value>)"
\* or, without one, by ".<sub-type>"; the description is never empty
ThirdTierTotal ==
    \A c \in callers :
        ReturnedFrom(c, "_get_market_description")
        => /\ result[c] # ""
           /\ Unresolved(args[c]) => result[c] = ThirdTierText(args[c])

\* a type outside 1..15 and a type inside it were described by the last tier
ThirdTierTotalWitness ==
    \E c \in callers :
        /\ ReturnedFrom(c, "_get_market_description")
        /\ Unresolved(args[c])
        /\ \/ result[c] = "Market Type 16.999"
           \/ result[c] = "Correct Score (1.5)"

\* the sections of a statistics result and the raw keys each is built from
SectionKeys ==
    ("event_info" :> {"eventInformationModel"}) @@
    ("tournament_standings" :> {"tournamentStandingsModel", "leagueTableModel"}) @@
    ("head_to_head" :> {"recentEventModel", "headToHeadModel"}) @@
    ("recent_form" :> {"lastEventModel"}) @@
    ("recent_matches" :> {"recentFormModel"}) @@
    ("betting_analysis" :> {"soccerIddaaAnalysModel", "bettingAnalysisModel"}) @@
    ("referee_info" :> {"soccerRefereePageModel", "refereeInformation"}) @@
    ("team_stats" :> {"teamStatisticsModel"})

\* raw key k is present and not empty
NonEmpty(stats_data, k) == k \in DOMAIN stats_data /\ stats_data[k] # <<>>
\* a section of a result, empty when the result has no such key
SectionOf(r, section) == IF section \in DOMAIN r THEN r[section] ELSE <<>>
\* the payload without the raw keys outside K
Restrict(stats_data, K) ==
    [k \in DOMAIN stats_data \cap (K \cup {"is_dict"}) |-> stats_data[k]]
\* the payload carries a referee with a positive identifier
PositiveReferee(stats_data) ==
    /\ NonEmpty(stats_data, "soccerRefereePageModel")
    /\ "referee" \in DOMAIN stats_data.soccerRefereePageModel
    /\ "id" \in DOMAIN stats_data.soccerRefereePageModel.referee
    /\ stats_data.soccerRefereePageModel.referee.id > 0

\* a section whose raw keys are all absent or empty is empty, and a section
\* is what it would be if the other sections' raw keys were not there
SectionsApart(c) ==
    LET stats_data == args[c].stats_data IN
    \A section \in DOMAIN SectionKeys :
        /\ (\A k \in SectionKeys[section] : ~NonEmpty(stats_data, k))
           => SectionOf(result[c], section) = <<>>
        /\ SectionOf(result[c], section) =
               SectionOf(ProcessEventStatistics(
                             Restrict(stats_data, SectionKeys[section]),
                             args[c].event_id, now).ret,
                         section)

\* a statistics payload that is a JSON object was processed
StatisticsReturned(c) ==
    ReturnedFrom(c, "_process_event_statistics") /\ args[c].stats_data.is_dict

\* C19: whatever raw keys are present and non-empty, the result has
\* success true, every section with a raw key present and non-empty is
\* populated, every section without one is empty or absent, and no section
\* depends on the raw keys of another
StatisticsPartial ==
    \A c \in callers :
        StatisticsReturned(c)
        => /\ result[c].success
           /\ \A section \in DOMAIN SectionKeys :
                (\E k \in SectionKeys[section] : NonEmpty(args[c].stats_data, k))
                => SectionOf(result[c], section) # <<>>
           /\ SectionsApart(c)

\* C19 as amended: as above, but for referee_info, which is populated when
\* soccerRefereePageModel carries a referee with a positive identifier
StatisticsPartialButReferee ==
    \A c \in callers :
        StatisticsReturned(c)
        => /\ result[c].success
           /\ \A section \in DOMAIN SectionKeys \ {"referee_info"} :
                (\E k \in SectionKeys[section] : NonEmpty(args[c].stats_data, k))
                => SectionOf(result[c], section) # <<>>
           /\ PositiveReferee(args[c].stats_data)
              => SectionOf(result[c], "referee_info") # <<>>
           /\ SectionsApart(c)

\* headToHeadModel was there and recentFormModel was not: head_to_head is
\* populated and the recent-form sections are empty
StatisticsPartialButRefereeWitness ==
    \E c \in callers :
        /\ StatisticsReturned(c)
        /\ NonEmpty(args[c].stats_data, "headToHeadModel")
        /\ "recentFormModel" \notin DOMAIN args[c].stats_data
        /\ NonEmpty(args[c].stats_data, "soccerRefereePageModel")
        /\ result[c].head_to_head # <<>>
        /\ result[c].recent_matches = <<>>
        /\ "recent_form" \notin DOMAIN result[c]

\* C20: in a successful statistics result referee_info is populated only if
\* the payload carries a referee with a positive identifier
RefereeNeedsPositiveId ==
    \A c \in callers :
        StatisticsReturned(c) /\ result[c].success
        => (result[c].referee_info # <<>> => PositiveReferee(args[c].stats_data))

-----------------------------------------------------------------------------
(* Properties of the normalizers as functions *)

\* the readings of the clock at which a normalizer is called on its own
ClockReadings == StartTime..(StartTime + Readings)

\* what normalizer o returns for the arguments a when the clock reads t
Normalized(o, a, t) ==
    CASE o = "_process_matches_data" ->
           ProcessMatchesData(a.api_data, a.limit, a.live_only, t).ret
      [] o = "_process_detailed_event" ->
           ProcessDetailedEvent(a.event_data, a.event_id, t).ret
      [] o = "_process_event_statistics" ->
           ProcessEventStatistics(a.stats_data, a.event_id, t).ret

\* C21: normalizer determinism: what _process_matches_data,
\* _process_detailed_event or _process_event_statistics has returned for a
\* raw input and arguments is what an invocation with the same input and
\* arguments returns at every other reading of the clock
NormalizerDeterminism ==
    \A c \in callers :
        ( /\ Returned(c)
          /\ op[c] \in {"_process_matches_data", "_process_detailed_event",
                        "_process_event_statistics"} )
        => \A t \in ClockReadings : Normalized(op[c], args[c], t) = result[c]

-----------------------------------------------------------------------------
(* Properties of two concurrent callers, checked under Concurrent *)

\* the time between the requests of two callers whose requests are in flight
Apart(c, d) ==
    IF dispatch_at[c] >= dispatch_at[d]
    THEN dispatch_at[c] - dispatch_at[d]
    ELSE dispatch_at[d] - dispatch_at[c]

\* C22: the read of last_request_time, the wait and the update are one
\* critical section: two callers never pass the interval check against the
\* same value of last_request_time and then dispatch their requests less
\* than min_request_interval apart
PacingCriticalSection ==
    \A c \in callers : \A d \in callers \ {c} :
        (Dispatched(c) /\ Dispatched(d) /\ lrt_seen[c] = lrt_seen[d])
        => Apart(c, d) >= min_request_interval

-----------------------------------------------------------------------------
(* Properties of the fetch operations as a whole, checked under Spec *)

\* the steps of a fetch, in their order: a call is served from the cache at
\* once, or checks the interval, sleeps, draws its delay, sends its request
\* and ends
FetchOrder ==
    {<<"idle", "done">>, <<"idle", "rate_limit">>, <<"rate_limit", "rate_sleep">>,
     <<"rate_sleep", "delay">>, <<"delay", "in_flight">>, <<"in_flight", "done">>,
     <<"in_flight", "raised">>, <<"done", "idle">>, <<"raised", "idle">>}

\* C23: a fetch served by a fresh cache entry returns at once and has no
\* other effect: no rate-limit wait, no randomized delay, no request,
\* last_request_time and every cache entry (timestamps included) unchanged;
\* on a miss the steps come in the order rate-limit wait, request,
\* normalization, cache write, return: the cache is written only by the step
\* that ends a request, with the normalized result that step returns, under
\* the key of the call
CacheHitFrame ==
    [][ /\ \A c \in callers :
             (Enters(c) /\ served'[c] = "cache")
             => /\ pc'[c] = "done"
                /\ UNCHANGED <<cache, last_request_time, dispatch_times,
                               wake_at, delay, rate_waited, dispatch_at, lrt_seen>>
        /\ \A c \in callers :
             /\ pc'[c] # pc[c] => <<pc[c], pc'[c]>> \in FetchOrder
             /\ (Enters(c) /\ served'[c] = "network") => pc'[c] = "rate_limit"
        /\ cache' # cache
           => \E c \in callers :
                 LET key == CacheKey(op[c], args[c]) IN
                 /\ Ends(c) /\ pc'[c] = "done"
                 /\ DOMAIN cache' = DOMAIN cache \cup {key}
                 /\ cache'[key] = [data |-> result'[c], timestamp |-> now]
                 /\ \A k \in DOMAIN cache \ {key} : cache'[k] = cache[k] ]_vars

\* C23 witness: a get_matches call was served from the cache after the
\* request of an earlier call
CacheHitFrameWitness ==
    \E c \in callers :
        /\ Returned(c)
        /\ served[c] = "cache"
        /\ op[c] = "matches"
        /\ dispatch_times # <<>>
        /\ last_request_time > 0
        /\ wake_at[c] = 0 /\ delay[c] = 0 /\ dispatch_at[c] = 0
        /\ result[c] = cache[CacheKey(op[c], args[c])].data

\* a call of get_event_details or get_event_statistics with use_cache=False
Uncached(o, a) == o \in {"details", "statistics"} /\ ~a.use_cache

\* C25: with use_cache=False get_event_details and get_event_statistics
\* neither read nor write the cache: the call goes to the network whatever
\* the cache holds, and the step that ends it, with a result or a failure,
\* leaves the cache as it was
UncachedBypass ==
    [][ \A c \in callers :
          /\ (Enters(c) /\ Uncached(op'[c], args'[c]))
             => /\ pc'[c] = "rate_limit"
                /\ served'[c] = "network"
                /\ cache' = cache
          /\ (pc[c] # "idle" /\ Uncached(op[c], args[c])) => cache' = cache ]_vars

\* C25 witness: a details call with use_cache=False is on its way to the
\* network although a fresh entry for its event is in the cache
UncachedBypassWitness ==
    \E c \in callers :
        /\ pc[c] = "rate_limit"
        /\ op[c] = "details"
        /\ ~args[c].use_cache
        /\ CacheHit(cache, DetailsKey(args[c].event_id), detail_cache_duration, now)

-----------------------------------------------------------------------------
(* Properties of the details normalizer, checked under Normalizers *)

\* the record made of a raw market keeps its codes and has one selection
\* for each raw selection, in the raw order
MarketMapped(info, market) ==
    /\ info.market_type = market.t
    /\ info.market_sub_type = market.st
    /\ info.special_odd_value = market.sov
    /\ Len(info.selections) = Len(market.o)
    /\ \A k \in 1..Len(market.o) :
         /\ info.selections[k].selection_no = market.o[k].no
         /\ info.selections[k].odd = market.o[k].odd

\* C24: in every successful details result betting_markets has one record
\* for each raw market, in the raw order, markets_count is its length, and
\* the selections of each record are those of its raw market, in the raw order
EveryMarketMapped ==
    \A c \in callers :
        ReturnedFrom(c, "_process_detailed_event") /\ result[c].success
        => LET markets == args[c].event_data.m
               betting_markets == result[c].betting_markets
           IN  /\ Len(betting_markets) = Len(markets)
               /\ result[c].markets_count = Len(betting_markets)
               /\ \A j \in 1..Len(markets) :
                    MarketMapped(betting_markets[j], markets[j])

\* C24 witness: two raw markets of different types, the first with three
\* selections and the second with two, were mapped
EveryMarketMappedWitness ==
    \E c \in callers :
        /\ ReturnedFrom(c, "_process_detailed_event") /\ result[c].success
        /\ Len(args[c].event_data.m) = 2
        /\ args[c].event_data.m[1].t # args[c].event_data.m[2].t
        /\ Len(args[c].event_data.m[1].o) = 3
        /\ Len(args[c].event_data.m[2].o) = 2
        /\ result[c].markets_count = 2
        /\ Len(result[c].betting_markets[1].selections) = 3

\* C26: every dispatched request counts for pacing, also when it fails: when
\* a fetch that dispatched a request ends, with a response or with a
\* transport exception, last_request_time is not earlier than the time the
\* request was dispatched; and last_request_time never decreases
EveryRequestPaces ==
    [][ /\ last_request_time' >= last_request_time
        /\ \A c \in callers :
             Ends(c) => last_request_time' >= dispatch_at[c] ]_vars

-----------------------------------------------------------------------------
(* Properties of the market descriptions, checked under Normalizers *)

\* _get_market_description without its table keyed by sub-type
DescriptionWithoutSubTypes(market_type, market_sub_type, special_odd_value) ==
    LET market_key == market_type.v \o "." \o market_sub_type.v
        table == market_descriptions(special_odd_value)
    IN  IF market_key \in DOMAIN table THEN table[market_key]
        ELSE IF IsTypeTwo(market_type) /\ special_odd_value # ""
        THEN "Goals & Statistics (" \o special_odd_value \o ")"
        ELSE IF special_odd_value # ""
        THEN MainDesc(market_type) \o " (" \o special_odd_value \o ")"
        ELSE MainDesc(market_type) \o "." \o market_sub_type.v

\* C27: the table keyed by sub-type never decides a description: each of its
\* keys k has an entry "2.k" in the exact table, and every call returns what
\* the function without that table returns
SubTypeTableIdle ==
    /\ \A k \in DOMAIN subtype_patterns : ("2." \o k) \in ExactKeys
    /\ \A c \in callers :
         ReturnedFrom(c, "_get_market_description")
         => result[c] = DescriptionWithoutSubTypes(args[c].market_type,
                                                   args[c].market_sub_type,
                                                   args[c].special_odd_value)

\* C27 witness: type "2" with sub-type "4" and no special value, a key of the
\* sub-type table, was described by the exact table
SubTypeTableIdleWitness ==
    \E c \in callers :
        /\ ReturnedFrom(c, "_get_market_description")
        /\ args[c].market_type = PyStr("2")
        /\ args[c].market_sub_type = PyStr("4")
        /\ args[c].special_odd_value = ""
        /\ result[c] = "Goal Intervals (0-1/2-3/4-5/6+)"
        /\ result[c] # subtype_patterns["4"]

\* the decimal string equal to a code
AsString(code) == PyStr(code.v)

\* C28: the description and the category do not depend on how the codes are
\* represented: what _get_market_description and _categorize_market return
\* for a type and a sub-type is what they return for the equal decimal
\* strings, with the same special value
RepresentationIndependent ==
    \A c \in callers :
        /\ ReturnedFrom(c, "_get_market_description")
           => result[c] = GetMarketDescription(AsString(args[c].market_type),
                                               AsString(args[c].market_sub_type),
                                               args[c].special_odd_value)
        /\ ReturnedFrom(c, "_categorize_market")
           => result[c] = CategorizeMarket(AsString(args[c].market_type),
                                           AsString(args[c].market_sub_type))

\* C29: the cached flag of a matches result tells where it came from: true
\* in a result get_matches serves from the cache, false in a result of a
\* fresh request
CachedFlagTellsSource ==
    \A c \in callers :
        (Returned(c) /\ op[c] = "matches" /\ result[c].success)
        => result[c].cached = (served[c] = "cache")

-----------------------------------------------------------------------------
(* Properties of the statistics normalizer, checked under Normalizers *)

\* the sections that two raw keys feed: <<the key read first, the key read
\* second>>
SectionPairs ==
    ("tournament_standings" :> <<"tournamentStandingsModel", "leagueTableModel">>) @@
    ("head_to_head" :> <<"recentEventModel", "headToHeadModel">>) @@
    ("betting_analysis" :> <<"soccerIddaaAnalysModel", "bettingAnalysisModel">>) @@
    ("referee_info" :> <<"soccerRefereePageModel", "refereeInformation">>)

\* the fields of the section that is built from a raw key
FieldsFrom(key) ==
    CASE key = "tournamentStandingsModel" -> {"overall_table", "tournament_name"}
      [] key = "leagueTableModel" -> {"home_team_position", "league_table"}
      [] key = "recentEventModel" -> {"overall_matches"}
      [] key = "headToHeadModel" -> {"recent_matches", "total_matches"}
      [] key = "soccerIddaaAnalysModel" -> {"general_info"}
      [] key = "bettingAnalysisModel" -> {"odds_movement", "opening_odds"}
      [] key = "soccerRefereePageModel" -> {"id", "recent_matches"}
      [] key = "refereeInformation" -> {"name", "nationality"}

\* the section of the result of c is built from raw key alone: it has the
\* fields of that key, none of the other key, and the content that the
\* payload with that key alone gives
BuiltFrom(c, section, key) ==
    /\ DOMAIN SectionOf(result[c], section) = FieldsFrom(key)
    /\ SectionOf(result[c], section) =
           SectionOf(ProcessEventStatistics(Restrict(args[c].stats_data, {key}),
                                            args[c].event_id, now).ret,
                     section)

\* C30: when both raw keys of a section are non-empty the section is built
\* from the second key only, replacing entirely what the first produced;
\* when only one of the two is non-empty the section is built from that one
SectionPrecedence ==
    \A c \in callers :
        StatisticsReturned(c)
        => \A section \in DOMAIN SectionPairs :
             LET first == SectionPairs[section][1]
                 second == SectionPairs[section][2]
                 stats_data == args[c].stats_data
             IN  /\ NonEmpty(stats_data, second) => BuiltFrom(c, section, second)
                 /\ (NonEmpty(stats_data, first) /\ ~NonEmpty(stats_data, second))
                    => BuiltFrom(c, section, first)

\* raw key k builds its section: it is non-empty and, for
\* soccerRefereePageModel, carries a referee with a positive identifier
Builds(stats_data, k) ==
    /\ NonEmpty(stats_data, k)
    /\ k = "soccerRefereePageModel" => PositiveReferee(stats_data)

\* C30 as amended: as above, with soccerRefereePageModel building
\* referee_info only when it carries a referee with a positive identifier;
\* a section neither of whose keys builds it is empty
SectionPrecedenceValidReferee ==
    \A c \in callers :
        StatisticsReturned(c)
        => \A section \in DOMAIN SectionPairs :
             LET first == SectionPairs[section][1]
                 second == SectionPairs[section][2]
                 stats_data == args[c].stats_data
             IN  /\ Builds(stats_data, second) => BuiltFrom(c, section, second)
                 /\ (Builds(stats_data, first) /\ ~Builds(stats_data, second))
                    => BuiltFrom(c, section, first)
                 /\ (~Builds(stats_data, first) /\ ~Builds(stats_data, second))
                    => SectionOf(result[c], section) = <<>>

\* C30 witness: tournamentStandingsModel and leagueTableModel were both
\* non-empty, and tournament_standings has the fields of leagueTableModel only
SectionPrecedenceValidRefereeWitness ==
    \E c \in callers :
        /\ StatisticsReturned(c)
        /\ NonEmpty(args[c].stats_data, "tournamentStandingsModel")
        /\ NonEmpty(args[c].stats_data, "leagueTableModel")
        /\ DOMAIN result[c].tournament_standings = {"home_team_position", "league_table"}
        /\ result[c].tournament_standings.home_team_position = 1

====
